---- MODULE Spec2Model ----
(***************************************************************************)
(* DPLL SAT solvers of the non-consecutive Sudoku assignment:              *)
(*   src/solver.py                    DLCS heuristic, naive propagation    *)
(*   src/ella_test/solver_mom.py      MOM heuristic, naive propagation,    *)
(*                                    statistics counters                  *)
(*   src/watched/solver_jw_watched.py two-sided Jeroslow-Wang heuristic,   *)
(*                                    watched-literal propagation          *)
(*   src/encoder.py                   puzzle -> CNF encoder                *)
(*   src/ella_test/main.py            DIMACS reader                        *)
(*                                                                         *)
(* Representation.  A literal is a non-zero integer.  A Python set clause  *)
(* is a TLA+ set of literals, a Python tuple/list clause is a sequence.    *)
(* A Python dict var -> bool is the set of its true literals: the binding  *)
(* v -> True is the element v, the binding v -> False the element -v, so   *)
(* "var in assignment" is  v \in asg \/ -v \in asg.  None is written 0.    *)
(***************************************************************************)
EXTENDS Integers, Sequences, FiniteSets, TLC

\* ------------------------------------------------------------------ bounds
NumVars == 3        \* num_vars of the formulas given to the solvers
MaxClauses == 4     \* clauses per input formula
MaxLen == 3         \* literals per input clause
PropClauses == 2    \* clauses given to the two unit propagations
FileLines == 2      \* clause lines of a DIMACS file
LineTokens == 3     \* tokens on a clause line

VARIABLES
  input,      \* the caller's clause list (list of lists of ints)
  num_vars,   \* the caller's num_vars
  solver,     \* entry point now running: "none", "dlcs", "mom", "jw"
  stack,      \* activation records of the recursive search, root first
  ret,        \* value being returned by the call that just ended
  counters,   \* solver_mom's counters dict
  results,    \* per entry point: what the call returned
  grid,       \* the puzzle read by the encoder (list of rows)
  bm,         \* a call of the model builder: its arguments and result
  prop,       \* a call of both unit propagations on the same arguments
  dm,         \* a call of the DIMACS reader: the file and the parse so far
  call        \* a call of one helper alone: its arguments and results

vars == <<input, num_vars, solver, stack, ret, counters, results, grid, bm, prop, dm,
         call>>

\* the variables the search leaves alone
aside == <<grid, bm, prop, dm, call>>

\* ------------------------------------------------------------------ helpers
Abs(x) == IF x < 0 THEN -x ELSE x

Lits == {l \in (-NumVars)..NumVars : l # 0}

Range(s) == {s[i] : i \in DOMAIN s}

Min(S) == CHOOSE x \in S : \A y \in S : x <= y

Max(S) == CHOOSE x \in S : \A y \in S : y <= x

RECURSIVE Pow2(_)
Pow2(n) == IF n <= 0 THEN 1 ELSE 2 * Pow2(n - 1)

\* "var in assignment"
IsBound(v, asg) == v \in asg \/ -v \in asg

\* the literals of a clause list whose clauses are sets
LitsOf(clauses) == UNION {clauses[i] : i \in DOMAIN clauses}

\* ascending enumeration of a finite set of integers
RECURSIVE Ascending(_)
Ascending(S) == IF S = {} THEN <<>> ELSE <<Min(S)>> \o Ascending(S \ {Min(S)})

\* ------------------------------------------------- solver.py, solver_mom.py
\* [set(c) for c in clauses]
clauses_to_sets(clauses) == [i \in DOMAIN clauses |-> Range(clauses[i])]

\* any(len(c) == 0 for c in clauses)
contains_empty_clause(clauses) == \E i \in DOMAIN clauses : clauses[i] = {}

\* the literal of every clause of length 1, in clause order
UnitLits(clauses) ==
  LET units == SelectSeq(clauses, LAMBDA c : Cardinality(c) = 1)
  IN  [i \in DOMAIN units |-> CHOOSE l \in units[i] : TRUE]

\* simplification that leaves the falsified literal in the clauses it keeps
simplify_after_assignment_keep(clauses, lit) ==
  SelectSeq(clauses, LAMBDA c : lit \notin c)

\* simplification that also drops the clauses that contain -lit
simplify_after_assignment_drop(clauses, lit) ==
  SelectSeq(clauses, LAMBDA c : lit \notin c /\ -lit \notin c)

\* Drop the clauses that contain lit and remove -lit from the others.
simplify_after_assignment(clauses, lit) ==
  LET kept == SelectSeq(clauses, LAMBDA c : lit \notin c)
  IN  [i \in DOMAIN kept |-> kept[i] \ {-lit}]

\* The for-loop over the snapshot unit_lits; prog records whether some
\* literal was newly bound in this pass.
RECURSIVE UnitFor(_, _, _, _, _)
UnitFor(unit_lits, k, clauses, asg, prog) ==
  IF k > Len(unit_lits)
  THEN [conflict |-> FALSE, clauses |-> clauses, asg |-> asg, prog |-> prog]
  ELSE LET lit == unit_lits[k]
       IN  IF IsBound(Abs(lit), asg)
           THEN IF lit \notin asg
                THEN [conflict |-> TRUE, clauses |-> clauses, asg |-> asg,
                      prog |-> prog]
                ELSE UnitFor(unit_lits, k + 1, clauses, asg, prog)
           ELSE IF \E i \in DOMAIN clauses :
                     /\ lit \notin clauses[i]
                     /\ -lit \in clauses[i]
                     /\ clauses[i] \ {-lit} = {}
                THEN [conflict |-> TRUE, clauses |-> clauses,
                      asg |-> asg \cup {lit}, prog |-> TRUE]
                ELSE UnitFor(unit_lits, k + 1,
                             simplify_after_assignment(clauses, lit),
                             asg \cup {lit}, TRUE)

\* unit propagation that makes one pass and returns
unit_propagate_once(clauses, asg) ==
  LET unit_lits == UnitLits(clauses)
      r == UnitFor(unit_lits, 1, clauses, asg, FALSE)
  IN  IF Len(unit_lits) = 0
      THEN [out |-> "ok", clauses |-> clauses, asg |-> asg]
      ELSE [out |-> IF r.conflict THEN "conflict" ELSE "ok",
            clauses |-> r.clauses, asg |-> r.asg]

\* unit propagation that stops before its first pass
unit_propagate_none(clauses, asg) ==
  [out |-> "ok", clauses |-> clauses, asg |-> asg]

\* The while-True loop.  A pass that finds unit clauses but binds nothing and
\* meets no conflict leaves clauses and assignment as they were, so the loop
\* repeats that pass for ever: out = "diverge".
RECURSIVE unit_propagate(_, _)
unit_propagate(clauses, asg) ==
  LET unit_lits == UnitLits(clauses)
  IN  IF Len(unit_lits) = 0
      THEN [out |-> "ok", clauses |-> clauses, asg |-> asg]
      ELSE LET r == UnitFor(unit_lits, 1, clauses, asg, FALSE)
           IN  IF r.conflict
               THEN [out |-> "conflict", clauses |-> r.clauses, asg |-> r.asg]
               ELSE IF ~r.prog
                    THEN [out |-> "diverge", clauses |-> clauses, asg |-> asg]
                    ELSE unit_propagate(r.clauses, r.asg)

\* pure_vars of one pass, as the literals they make true
PureLits(clauses, asg) ==
  LET occ == {l \in LitsOf(clauses) : ~IsBound(Abs(l), asg)}
  IN  {l \in occ : -l \notin occ}

\* one pass that keeps, of each surviving clause, only the literals of the
\* variables bound before
pure_literal_elim_strip(clauses, asg) ==
  LET pure == PureLits(clauses, asg)
      kept == SelectSeq(clauses, LAMBDA c : c \cap pure = {})
  IN  [clauses |-> [i \in DOMAIN kept |-> {l \in kept[i] : IsBound(Abs(l), asg)}],
       asg |-> asg \cup pure]

RECURSIVE pure_literal_elim(_, _)
pure_literal_elim(clauses, asg) ==
  LET pure == PureLits(clauses, asg)
  IN  IF pure = {}
      THEN [clauses |-> clauses, asg |-> asg]
      ELSE pure_literal_elim(
             SelectSeq(clauses, LAMBDA c : c \cap pure = {}),
             asg \cup pure)

\* pos_count / neg_count of solver.py: clauses are sets, so an occurrence
\* count is a count of clauses
OccCount(clauses, asg, lit) ==
  IF IsBound(Abs(lit), asg) THEN 0
  ELSE Cardinality({i \in DOMAIN clauses : lit \in clauses[i]})

\* a scan that settles on variable 1, bound or not
DlcsScanFirst(v, clauses, asg, nv, best) ==
  [var |-> 1, score |-> 0, pref |-> TRUE]

\* the scan "for var in range(1, num_vars + 1)" of _choose_branch_var
RECURSIVE DlcsScan(_, _, _, _, _)
DlcsScan(v, clauses, asg, nv, best) ==
  IF v > nv THEN best
  ELSE IF IsBound(v, asg) THEN DlcsScan(v + 1, clauses, asg, nv, best)
  ELSE LET p == OccCount(clauses, asg, v)
           n == OccCount(clauses, asg, -v)
       IN  IF p + n > best.score
           THEN DlcsScan(v + 1, clauses, asg, nv,
                         [var |-> v, score |-> p + n, pref |-> (p >= n)])
           ELSE DlcsScan(v + 1, clauses, asg, nv, best)

\* a selection in which the highest variable id wins a tie
choose_branch_var_last(clauses, asg, nv) ==
  LET un == {v \in 1..nv : ~IsBound(v, asg)}
      sc(v) == OccCount(clauses, asg, v) + OccCount(clauses, asg, -v)
      best == {v \in un : \A w \in un : sc(w) <= sc(v)}
  IN  IF un = {} THEN [var |-> 0, pref |-> TRUE]
      ELSE [var |-> Max(best),
            pref |-> (OccCount(clauses, asg, Max(best))
                        >= OccCount(clauses, asg, -Max(best)))]

choose_branch_var(clauses, asg, nv) ==
  LET b == DlcsScan(1, clauses, asg, nv, [var |-> 0, score |-> -1, pref |-> TRUE])
  IN  [var |-> b.var, pref |-> b.pref]

\* split of solver_mom.py.  max(scores, key=scores.get) returns the first
\* maximal key in dict insertion order, which is the iteration order of the
\* clause sets; that order is not fixed by the language, so every maximal
\* variable is a possible result.
mom_split(clauses, asg) ==
  LET un == {i \in DOMAIN clauses :
               ~(\A l \in clauses[i] : IsBound(Abs(l), asg))}
  IN  IF un = {} THEN {[var |-> 0, pref |-> TRUE]}
      ELSE LET min_len == Min({Cardinality(clauses[i]) : i \in un})
               mins == {i \in un : Cardinality(clauses[i]) = min_len}
               score(v) == Cardinality({<<i, l>> \in mins \X {v, -v} :
                                          l \in clauses[i]})
               cand == {v \in {Abs(l) : l \in UNION {clauses[i] : i \in mins}} :
                          ~IsBound(v, asg)}
               pol(v) == Cardinality({i \in mins : v \in clauses[i]})
                         - Cardinality({i \in mins : -v \in clauses[i]})
           IN  {[var |-> v, pref |-> (pol(v) >= 0)] :
                  v \in {w \in cand : \A x \in cand : score(x) <= score(w)}}

\* the loop with val = assignment.get(v, True)
RECURSIVE BuildFromTrue(_, _, _, _)
BuildFromTrue(asg, nv, v, model) ==
  IF v > nv THEN model
  ELSE BuildFromTrue(asg, nv, v + 1, Append(model, IF -v \in asg THEN -v ELSE v))

\* _build_model / build_model: the loop "for v in range(1, num_vars + 1)",
\* with val = assignment.get(v, False)
RECURSIVE BuildFrom(_, _, _, _)
BuildFrom(asg, nv, v, model) ==
  IF v > nv THEN model
  ELSE BuildFrom(asg, nv, v + 1, Append(model, IF v \in asg THEN v ELSE -v))

build_model(asg, nv) == BuildFrom(asg, nv, 1, <<>>)

\* ------------------------------------------------ solver_jw_watched.py
\* [tuple(c) for c in clauses]
convert_clauses(clauses) == [i \in DOMAIN clauses |-> clauses[i]]

\* len(clause) of a clause that is a tuple (indexed) or a set
ClauseLen(indexed, clause) ==
  IF indexed THEN Len(clause) ELSE Cardinality(clause)

\* watchers.get(lit, set())
Watching(w, lit) == IF lit \in DOMAIN w.watchers THEN w.watchers[lit] ELSE {}

\* Watch construction and the enqueueing of the bindings already present.
\* ord is the assignment in dict order, as true literals.  The loop visits
\* the clauses in order: an empty clause returns a conflict, and a clause
\* that cannot be read by position (a set) raises TypeError at clause[pos].
WatchBuild(indexed, clauses, asg, ord) ==
  LET bad == {ci \in DOMAIN clauses :
                ClauseLen(indexed, clauses[ci]) = 0 \/ ~indexed}
      base == [clauses |-> clauses, asg |-> asg, queue |-> <<>>,
               watched_pos |-> <<>>, watchers |-> <<>>, pc |-> "done",
               out |-> "conflict", conflict_ci |-> 0, simplified |-> <<>>]
  IN  IF bad # {}
      THEN IF ClauseLen(indexed, clauses[Min(bad)]) = 0
           THEN [base EXCEPT !.conflict_ci = Min(bad)]
           ELSE [base EXCEPT !.out = "error"]
      ELSE LET wp == [ci \in DOMAIN clauses |->
                        IF Len(clauses[ci]) = 1 THEN <<1, 1>> ELSE <<1, 2>>]
               wl == UNION {{clauses[ci][wp[ci][1]], clauses[ci][wp[ci][2]]} :
                              ci \in DOMAIN clauses}
           IN  [base EXCEPT
                  !.watched_pos = wp,
                  !.watchers = [l \in wl |->
                                  {ci \in DOMAIN clauses :
                                     \/ clauses[ci][wp[ci][1]] = l
                                     \/ clauses[ci][wp[ci][2]] = l}],
                  !.queue = ord,
                  !.pc = "scan",
                  !.out = "run"]

\* The scan for initial unit clauses (second loop over the clauses).
RECURSIVE WatchScanFrom(_, _)
WatchScanFrom(w, ci) ==
  IF ci > Len(w.clauses) THEN [w EXCEPT !.pc = "loop"]
  ELSE IF Len(w.clauses[ci]) # 1 THEN WatchScanFrom(w, ci + 1)
  ELSE LET lit == w.clauses[ci][1]
       IN  IF -lit \in w.asg
           THEN [w EXCEPT !.pc = "done", !.out = "conflict", !.conflict_ci = ci]
           ELSE IF lit \in w.asg
                THEN WatchScanFrom(w, ci + 1)
                ELSE WatchScanFrom([w EXCEPT !.asg = @ \cup {lit},
                                             !.queue = Append(@, lit)],
                                   ci + 1)

WatchScan(w) == WatchScanFrom(w, 1)

\* a visit that moves the watched position and leaves the watcher sets
WatchVisitPosOnly(w, ci, true_lit) ==
  LET clause == w.clauses[ci]
      i1 == w.watched_pos[ci][1]
      i2 == w.watched_pos[ci][2]
      neg == -true_lit
      false_watch_pos == IF clause[i1] = neg THEN i1 ELSE i2
      other_watch_pos == IF clause[i1] = neg THEN i2 ELSE i1
      cands == {idx \in DOMAIN clause :
                  /\ idx # other_watch_pos
                  /\ idx # false_watch_pos
                  /\ -clause[idx] \notin w.asg}
  IN  IF (clause[i1] # neg /\ clause[i2] # neg)
         \/ clause[other_watch_pos] \in w.asg \/ cands = {}
      THEN w
      ELSE [w EXCEPT !.watched_pos[ci] =
                        IF false_watch_pos = i1
                        THEN <<Min(cands), other_watch_pos>>
                        ELSE <<other_watch_pos, Min(cands)>>]

\* a visit that leaves the clause and its watches as they are
WatchVisitSkip(w, ci, true_lit) == w

\* The body of "for ci in affected_watch_list" for one clause.
WatchVisit(w, ci, true_lit) ==
  LET clause == w.clauses[ci]
      i1 == w.watched_pos[ci][1]
      i2 == w.watched_pos[ci][2]
      neg == -true_lit
  IN  IF clause[i1] # neg /\ clause[i2] # neg THEN w
      ELSE LET false_watch_pos == IF clause[i1] = neg THEN i1 ELSE i2
               other_watch_pos == IF clause[i1] = neg THEN i2 ELSE i1
               other_lit == clause[other_watch_pos]
               cands == {idx \in DOMAIN clause :
                           /\ idx # other_watch_pos
                           /\ idx # false_watch_pos
                           /\ -clause[idx] \notin w.asg}
           IN  IF other_lit \in w.asg THEN w
               ELSE IF cands # {}
               THEN LET idx == Min(cands)
                        cand == clause[idx]
                        dropped == [l \in DOMAIN w.watchers \cup {cand} |->
                                      IF l = neg THEN Watching(w, l) \ {ci}
                                      ELSE Watching(w, l)]
                    IN  [w EXCEPT
                           !.watchers = [dropped EXCEPT ![cand] = @ \cup {ci}],
                           !.watched_pos[ci] =
                              IF false_watch_pos = i1
                              THEN <<idx, other_watch_pos>>
                              ELSE <<other_watch_pos, idx>>]
               ELSE IF -other_lit \in w.asg
               THEN [w EXCEPT !.pc = "done", !.out = "conflict",
                              !.conflict_ci = ci]
               ELSE [w EXCEPT !.asg = @ \cup {other_lit},
                              !.queue = Append(@, other_lit)]

RECURSIVE WatchVisitAll(_, _, _, _)
WatchVisitAll(w, affected, k, true_lit) ==
  IF k > Len(affected) \/ w.out # "run" THEN w
  ELSE WatchVisitAll(WatchVisit(w, affected[k], true_lit), affected, k + 1,
                     true_lit)

\* One iteration of "while queue".  affected_watch_list is a copy of a set
\* of clause indices; CPython iterates a set of small non-negative ints in
\* increasing order (hash(i) = i, one slot each while i is below the table
\* size, which holds for the clause lists of this model).
WatchStep(w) ==
  IF Len(w.queue) = 0 THEN [w EXCEPT !.pc = "final"]
  ELSE LET true_lit == Head(w.queue)
           popped == [w EXCEPT !.queue = Tail(@)]
       IN  IF -true_lit \in w.asg
           THEN [popped EXCEPT !.pc = "done", !.out = "conflict"]
           ELSE WatchVisitAll(popped, Ascending(Watching(w, -true_lit)), 1,
                              true_lit)

\* a final pass that drops the satisfied clauses and keeps the false literals
WatchFinalKeepFalse(w) ==
  LET live == SelectSeq(w.clauses,
                        LAMBDA c : \A i \in DOMAIN c : c[i] \notin w.asg)
  IN  [w EXCEPT !.pc = "done", !.out = "ok",
                !.simplified = [i \in DOMAIN live |-> Range(live[i])]]

\* The construction of the simplified clause list after propagation.
WatchFinal(w) ==
  LET live == SelectSeq(w.clauses,
                        LAMBDA c : \A i \in DOMAIN c : c[i] \notin w.asg)
      rest == [i \in DOMAIN live |->
                 {live[i][j] : j \in {k \in DOMAIN live[i] :
                                        -live[i][k] \notin w.asg}}]
  IN  IF \E i \in DOMAIN rest : rest[i] = {}
      THEN [w EXCEPT !.pc = "done", !.out = "conflict"]
      ELSE [w EXCEPT !.pc = "done", !.out = "ok", !.simplified = rest]

RECURSIVE WatchRun(_)
WatchRun(w) ==
  IF w.pc = "done" THEN w
  ELSE IF w.pc = "scan" THEN WatchRun(WatchScan(w))
  ELSE IF w.pc = "loop" THEN WatchRun(WatchStep(w))
  ELSE WatchRun(WatchFinal(w))

\* unit_clause_rule of solver_jw_watched.py; on a conflict the clauses passed
\* in are returned, and the assignment is the caller's dict as updated so far
watched_unit_clause_rule(indexed, clauses, asg, ord) ==
  LET w == WatchRun(WatchBuild(indexed, clauses, asg, ord))
  IN  [out |-> w.out,
       clauses |-> IF w.out = "ok" THEN w.simplified ELSE clauses,
       asg |-> w.asg]

\* weight 2 ** (-len(c)), scaled by 2 ** (longest clause) to stay integral
JwWeight(clauses, lit, asg) ==
  LET longest == Max({Cardinality(clauses[i]) : i \in DOMAIN clauses} \cup {0})
      hits == {i \in DOMAIN clauses : lit \in clauses[i]}
      RECURSIVE Sum(_)
      Sum(S) == IF S = {} THEN 0
                ELSE LET i == Min(S)
                     IN  Pow2(longest - Cardinality(clauses[i])) + Sum(S \ {i})
  IN  IF IsBound(Abs(lit), asg) THEN 0 ELSE Sum(hits)

RECURSIVE JwScan(_, _, _, _, _)
JwScan(v, clauses, asg, nv, best) ==
  IF v > nv THEN best
  ELSE IF IsBound(v, asg) THEN JwScan(v + 1, clauses, asg, nv, best)
  ELSE LET p == JwWeight(clauses, v, asg)
           n == JwWeight(clauses, -v, asg)
       IN  IF p + n > best.score
           THEN JwScan(v + 1, clauses, asg, nv,
                       [var |-> v, score |-> p + n, pref |-> (p >= n)])
           ELSE JwScan(v + 1, clauses, asg, nv, best)

jw_split(clauses, asg, nv) ==
  LET b == JwScan(1, clauses, asg, nv, [var |-> 0, score |-> -1, pref |-> TRUE])
  IN  [var |-> b.var, pref |-> b.pref]

\* -------------------------------------------------------------- encoder.py
\* concatenation of a sequence of sequences
RECURSIVE Flatten(_)
Flatten(ss) == IF Len(ss) = 0 THEN <<>> ELSE Head(ss) \o Flatten(Tail(ss))

\* int(math.sqrt(N))
ISqrt(N) == CHOOSE b \in 0..N : b * b <= N /\ (b + 1) * (b + 1) > N

\* r, c count from 0 and v from 1
map_to_var(r, c, v, N) == r * N * N + c * N + v

\* at least one of var_ls, then at most one: a clause for each pair i < j
one_value_per_cell_helper(var_ls) ==
  LET n == Len(var_ls)
  IN  <<var_ls>> \o
      Flatten([i \in 1..n |->
                 [k \in 1..(n - i) |-> <<-var_ls[i], -var_ls[i + k]>>]])

one_value_per_cel(N) ==
  Flatten([rc \in 1..(N * N) |->
             LET r == (rc - 1) \div N
                 c == (rc - 1) % N
             IN  one_value_per_cell_helper([v \in 1..N |-> map_to_var(r, c, v, N)])])

row_constraint(N) ==
  Flatten([rv \in 1..(N * N) |->
             LET r == (rv - 1) \div N
                 v == ((rv - 1) % N) + 1
             IN  one_value_per_cell_helper([c \in 1..N |-> map_to_var(r, c - 1, v, N)])])

col_constraint(N) ==
  Flatten([cv \in 1..(N * N) |->
             LET c == (cv - 1) \div N
                 v == ((cv - 1) % N) + 1
             IN  one_value_per_cell_helper([r \in 1..N |-> map_to_var(r - 1, c, v, N)])])

\* range(0, N, B)
Strides(N, B) == [k \in 1..((N + B - 1) \div B) |-> (k - 1) * B]

box_constraint(N) ==
  LET B == ISqrt(N)
      outer == Strides(N, B)
      no == Len(outer)
  IN  Flatten([k \in 1..(no * no * N) |->
                 LET outer_r == outer[((k - 1) \div (no * N)) + 1]
                     outer_c == outer[(((k - 1) \div N) % no) + 1]
                     v == ((k - 1) % N) + 1
                 IN  one_value_per_cell_helper(
                       [m \in 1..(B * B) |->
                          map_to_var(outer_r + ((m - 1) \div B),
                                     outer_c + ((m - 1) % B), v, N)])])

\* the rule left out
non_consecutive_none(N) == <<>>

\* for every cell, its down neighbour and then its right neighbour, when on
\* the grid: for v in 1..N-1 the two clauses forbidding v next to v+1
non_consecutive(N) ==
  LET Pair(r, c, r2, c2) ==
        IF 0 <= r2 /\ r2 < N /\ 0 <= c2 /\ c2 < N
        THEN Flatten([v \in 1..(N - 1) |->
               << <<-map_to_var(r, c, v, N), -map_to_var(r2, c2, v + 1, N)>>,
                  <<-map_to_var(r, c, v + 1, N), -map_to_var(r2, c2, v, N)>> >>])
        ELSE <<>>
  IN  Flatten([rc \in 1..(N * N) |->
                 LET r == (rc - 1) \div N
                     c == (rc - 1) % N
                 IN  Pair(r, c, r + 1, c) \o Pair(r, c, r, c + 1)])

clues(g, N) ==
  Flatten([rc \in 1..(N * N) |->
             LET r == (rc - 1) \div N
                 c == (rc - 1) % N
                 v == g[r + 1][c + 1]
             IN  IF v # 0 THEN <<<<map_to_var(r, c, v, N)>>>> ELSE <<>>])

\* to_cnf after read_text: g is the grid read from the file
to_cnf(g) ==
  LET N == Len(g)
  IN  [clauses |-> one_value_per_cel(N) \o row_constraint(N) \o col_constraint(N)
                   \o box_constraint(N) \o non_consecutive(N) \o clues(g, N),
       num_vars |-> N * N * N]

\* ---------------------------------------------------------- the search
Solvers == {"dlcs", "mom", "jw"}

NoRet == [set |-> FALSE, sat |-> FALSE, asg |-> {}]

NoResult == [status |-> "none", model |-> <<>>]

ZeroCounters == [splits |-> 0, backtracks |-> 0, calls |-> 0]

\* no call of the model builder, of the propagations or of the reader
BmIdle == [asg |-> {}, nv |-> 0, model |-> <<>>, done |-> FALSE]

PropIdle == [pc |-> "idle"]

DmIdle == [pc |-> "idle"]

CallIdle == [pc |-> "idle"]

\* an activation record that starts from the empty assignment
CallFrameForgetful(indexed, clauses, asg) ==
  [indexed |-> indexed, clauses |-> clauses, asg |-> {},
   loop |-> FALSE, var |-> 0, pref |-> TRUE, i |-> 0, new_assignment |-> {}]

\* an activation record of _dpll / dpll at its entry.  new_assignment is
\* the dict the branch loop builds and hands to the child it calls.
CallFrame(indexed, clauses, asg) ==
  [indexed |-> indexed, clauses |-> clauses, asg |-> asg,
   loop |-> FALSE, var |-> 0, pref |-> TRUE, i |-> 0, new_assignment |-> {}]

Top == stack[Len(stack)]

Pop == SubSeq(stack, 1, Len(stack) - 1)

\* The callers of the running call after its unit propagation.  The call's
\* assignment parameter is the caller's new_assignment dict; the naive
\* propagation works on a copy of it, the watched one writes into it.
Callers(s, asg) ==
  IF s = "jw" /\ Len(stack) >= 2
  THEN [Pop EXCEPT ![Len(stack) - 1].new_assignment = asg]
  ELSE Pop

\* a child assignment written into the dict of the previous child
NewAssignmentReused(f, lit) == f.new_assignment \cup {lit}

\* new_assignment = dict(assignment); new_assignment[var] = try_val
NewAssignment(f, lit) == (f.asg \ {f.var, -f.var}) \cup {lit}

\* input clauses: literal tuples, ordered by variable, one literal per variable
LitCode(l) == l + NumVars + 1

RECURSIVE ClauseCode(_)
ClauseCode(c) ==
  IF Len(c) = 0 THEN 0
  ELSE LitCode(Head(c)) + (2 * NumVars + 2) * ClauseCode(Tail(c))

ClauseTuples ==
  {c \in UNION {[1..n -> Lits] : n \in 0..MaxLen} :
     \A i \in DOMAIN c : \A j \in DOMAIN c : i < j => Abs(c[i]) < Abs(c[j])}

\* step 1 of the search: the solver's own unit propagation.  The watched
\* version reads the dict order of the assignment only to fill its queue; in
\* a recursive call the clauses are sets, so the queue is consumed only when
\* the clause list is empty and the order cannot matter.
Propagate(s, f) ==
  IF s = "jw"
  THEN watched_unit_clause_rule(f.indexed, f.clauses, f.asg, Ascending(f.asg))
  ELSE unit_propagate(f.clauses, f.asg)

\* step 4: the possible results of the solver's heuristic
Splits(s, clauses, asg, nv) ==
  IF s = "dlcs" THEN {choose_branch_var(clauses, asg, nv)}
  ELSE IF s = "mom" THEN mom_split(clauses, asg)
  ELSE {jw_split(clauses, asg, nv)}

\* counters["calls"] += 1 and the like (solver_mom.py only)
CountCall(s, c) == IF s = "mom" THEN [c EXCEPT !.calls = @ + 1] ELSE c

\* the split counter left as it is
CountSplitNever(s, c) == c

CountSplit(s, c) == IF s = "mom" THEN [c EXCEPT !.splits = @ + 1] ELSE c

CountBacktrack(s, c) == IF s = "mom" THEN [c EXCEPT !.backtracks = @ + 1] ELSE c

\* the complement first, the preferred polarity second
TryValsComplementFirst(pref) == <<~pref, pref>>

\* the preferred polarity alone
TryValsPreferredOnly(pref) == <<pref>>

\* the polarities tried by "for try_val in (pref_val, not pref_val)"
TryVals(pref) == <<pref, ~pref>>

Init ==
  /\ input = <<>>
  /\ num_vars = NumVars
  /\ solver = "none"
  /\ stack = <<>>
  /\ ret = NoRet
  /\ counters = ZeroCounters
  /\ results = [s \in Solvers |-> NoResult]
  /\ grid = <<>>
  /\ bm = BmIdle
  /\ prop = PropIdle
  /\ dm = DmIdle
  /\ call = CallIdle

\* the caller builds a formula, clause by clause
AddClause ==
  /\ solver = "none"
  /\ \A s \in Solvers : results[s].status = "none"
  /\ Len(input) < MaxClauses
  /\ \E c \in ClauseTuples :
       /\ Len(input) > 0 => ClauseCode(c) > ClauseCode(input[Len(input)])
       /\ input' = Append(input, c)
  /\ UNCHANGED <<num_vars, solver, stack, ret, counters, results, aside>>

\* solve_cnf / solve_cnf_mom / solve_cnf up to the call of the search
SolveCnf ==
  /\ solver = "none"
  /\ \E s \in Solvers :
       /\ results[s].status = "none"
       /\ s = "mom" => results["dlcs"].status # "none"
       /\ s = "jw" => results["mom"].status # "none"
       /\ solver' = s
       /\ stack' = <<IF s = "jw"
                     THEN CallFrame(TRUE, convert_clauses(input), {})
                     ELSE CallFrame(FALSE, clauses_to_sets(input), {})>>
       /\ counters' = IF s = "mom" THEN ZeroCounters ELSE counters
  /\ ret' = NoRet
  /\ UNCHANGED <<input, num_vars, results, aside>>

\* one call of the search up to its first return or to the branch loop
Dpll_Call ==
  /\ solver # "none" /\ ~ret.set /\ Len(stack) > 0 /\ ~Top.loop
  /\ LET up == Propagate(solver, Top)
         pl == pure_literal_elim(up.clauses, up.asg)
         called == CountCall(solver, counters)
     IN  IF up.out = "error" \/ up.out = "diverge"
         THEN /\ results' = [results EXCEPT ![solver] =
                               [status |-> IF up.out = "error" THEN "ERROR"
                                           ELSE "DIVERGES",
                                model |-> <<>>]]
              /\ stack' = <<>>
              /\ solver' = "none"
              /\ ret' = NoRet
              /\ counters' = called
         ELSE IF up.out = "conflict"
         THEN /\ ret' = [set |-> TRUE, sat |-> FALSE, asg |-> {}]
              /\ stack' = Callers(solver, up.asg)
              /\ counters' = called
              /\ UNCHANGED <<solver, results>>
         ELSE IF Len(pl.clauses) = 0
         THEN /\ ret' = [set |-> TRUE, sat |-> TRUE, asg |-> pl.asg]
              /\ stack' = Callers(solver, up.asg)
              /\ counters' = called
              /\ UNCHANGED <<solver, results>>
         ELSE IF contains_empty_clause(pl.clauses)
         THEN /\ ret' = [set |-> TRUE, sat |-> FALSE, asg |-> {}]
              /\ stack' = Callers(solver, up.asg)
              /\ counters' = called
              /\ UNCHANGED <<solver, results>>
         ELSE \E ch \in Splits(solver, pl.clauses, pl.asg, num_vars) :
                IF ch.var = 0
                THEN /\ ret' = [set |-> TRUE, sat |-> FALSE, asg |-> {}]
                     /\ stack' = Callers(solver, up.asg)
                     /\ counters' = called
                     /\ UNCHANGED <<solver, results>>
                ELSE /\ stack' = Append(Callers(solver, up.asg),
                                   [indexed |-> FALSE, clauses |-> pl.clauses,
                                    asg |-> pl.asg, loop |-> TRUE,
                                    var |-> ch.var, pref |-> ch.pref, i |-> 1,
                                    new_assignment |-> {}])
                     /\ counters' = CountSplit(solver, called)
                     /\ UNCHANGED <<solver, results, ret>>
  /\ UNCHANGED <<input, num_vars, aside>>

\* one iteration of the branch loop up to its continue or its recursive call
Dpll_Try ==
  /\ solver # "none" /\ ~ret.set /\ Len(stack) > 0 /\ Top.loop
  /\ Top.i <= Len(TryVals(Top.pref))
  /\ LET try_val == TryVals(Top.pref)[Top.i]
         lit == IF try_val THEN Top.var ELSE -Top.var
         new_assignment == NewAssignment(Top, lit)
         new_clauses == simplify_after_assignment(Top.clauses, lit)
         built == [Top EXCEPT !.new_assignment = new_assignment]
     IN  IF contains_empty_clause(new_clauses)
         THEN stack' = Append(Pop, [built EXCEPT !.i = @ + 1])
         ELSE stack' = Append(Append(Pop, built),
                              CallFrame(FALSE, new_clauses, new_assignment))
  /\ UNCHANGED <<input, num_vars, solver, ret, counters, results, aside>>

\* the branch loop is exhausted: return False, {}
Dpll_Fail ==
  /\ solver # "none" /\ ~ret.set /\ Len(stack) > 0 /\ Top.loop
  /\ Top.i > Len(TryVals(Top.pref))
  /\ ret' = [set |-> TRUE, sat |-> FALSE, asg |-> {}]
  /\ stack' = Pop
  /\ UNCHANGED <<input, num_vars, solver, counters, results, aside>>

\* a recursive call has returned into the branch loop of its caller
Dpll_Return ==
  /\ solver # "none" /\ ret.set /\ Len(stack) > 0
  /\ IF ret.sat
     THEN /\ stack' = Pop
          /\ UNCHANGED <<ret, counters>>
     ELSE /\ stack' = Append(Pop, [Top EXCEPT !.i = @ + 1])
          /\ ret' = NoRet
          /\ counters' = CountBacktrack(solver, counters)
  /\ UNCHANGED <<input, num_vars, solver, results, aside>>

\* the search has returned to the entry point, which builds its result
Solve_Return ==
  /\ solver # "none" /\ ret.set /\ Len(stack) = 0
  /\ results' = [results EXCEPT ![solver] =
                   IF ret.sat
                   THEN [status |-> "SAT", model |-> build_model(ret.asg, num_vars)]
                   ELSE [status |-> "UNSAT", model |-> <<>>]]
  /\ solver' = "none"
  /\ ret' = NoRet
  /\ UNCHANGED <<input, num_vars, stack, counters, aside>>

Next ==
  \/ AddClause
  \/ SolveCnf
  \/ Dpll_Call
  \/ Dpll_Try
  \/ Dpll_Fail
  \/ Dpll_Return
  \/ Solve_Return

Spec == Init /\ [][Next]_vars

\* ------------------------------------------------- the model builder alone
SearchIdle ==
  /\ input = <<>>
  /\ num_vars = NumVars
  /\ solver = "none"
  /\ stack = <<>>
  /\ ret = NoRet
  /\ counters = ZeroCounters
  /\ results = [s \in Solvers |-> NoResult]

\* partial assignments; variable NumVars + 1 lies outside 1..num_vars
Assignments ==
  {a \in SUBSET {l \in (-(NumVars + 1))..(NumVars + 1) : l # 0} :
     \A l \in a : -l \notin a}

InitModel ==
  /\ SearchIdle
  /\ grid = <<>> /\ prop = PropIdle /\ dm = DmIdle /\ call = CallIdle
  /\ \E a \in Assignments : \E n \in 0..NumVars :
       bm = [asg |-> a, nv |-> n, model |-> <<>>, done |-> FALSE]

BuildModel ==
  /\ ~bm.done
  /\ bm' = [bm EXCEPT !.model = build_model(bm.asg, bm.nv), !.done = TRUE]
  /\ UNCHANGED <<input, num_vars, solver, stack, ret, counters, results,
                 grid, prop, dm, call>>

NextModel == BuildModel

SpecModel == InitModel /\ [][NextModel]_vars

\* ------------------------------------- the two unit propagations side by side
\* an assignment in dict order, as true literals
OrderedAssignments ==
  {o \in UNION {[1..n -> Lits] : n \in 0..NumVars} :
     \A i \in DOMAIN o : \A j \in DOMAIN o : i # j => Abs(o[i]) # Abs(o[j])}

InitProp ==
  /\ SearchIdle
  /\ grid = <<>> /\ bm = BmIdle /\ dm = DmIdle /\ call = CallIdle
  /\ \E cs \in UNION {[1..n -> ClauseTuples] : n \in 0..PropClauses} :
       \E o \in OrderedAssignments :
         prop = [pc |-> "naive", clauses |-> cs, asg |-> Range(o), ord |-> o,
                 naive |-> [out |-> "none"], w |-> [pc |-> "build"]]

PropFrame ==
  UNCHANGED <<input, num_vars, solver, stack, ret, counters, results,
              grid, bm, dm, call>>

\* unit_clause_rule of solver_mom.py (= _unit_propagate of solver.py) on the
\* clauses as sets
Naive_Run ==
  /\ prop.pc = "naive"
  /\ prop' = [prop EXCEPT
                !.naive = unit_propagate(clauses_to_sets(prop.clauses), prop.asg),
                !.pc = "watched"]
  /\ PropFrame

\* unit_clause_rule of solver_jw_watched.py on the clauses as tuples, in steps
Watch_Build ==
  /\ prop.pc = "watched" /\ prop.w.pc = "build"
  /\ prop' = [prop EXCEPT !.w = WatchBuild(TRUE, prop.clauses, prop.asg, prop.ord)]
  /\ PropFrame

Watch_Scan ==
  /\ prop.pc = "watched" /\ prop.w.pc = "scan"
  /\ prop' = [prop EXCEPT !.w = WatchScan(prop.w)]
  /\ PropFrame

Watch_Step ==
  /\ prop.pc = "watched" /\ prop.w.pc = "loop"
  /\ prop' = [prop EXCEPT !.w = WatchStep(prop.w)]
  /\ PropFrame

Watch_Final ==
  /\ prop.pc = "watched" /\ prop.w.pc = "final"
  /\ prop' = [prop EXCEPT !.w = WatchFinal(prop.w)]
  /\ PropFrame

NextProp ==
  \/ Naive_Run
  \/ Watch_Build
  \/ Watch_Scan
  \/ Watch_Step
  \/ Watch_Final

SpecProp == InitProp /\ [][NextProp]_vars

\* ------------------------------------------- encoder and solver on a puzzle
ZeroGrid == << <<0, 0, 0, 0>>, <<0, 0, 0, 0>>, <<0, 0, 0, 0>>, <<0, 0, 0, 0>> >>

\* the empty 4x4 grid, the same with one clue in its first cell, and the two
\* 1x1 grids
Puzzles ==
  {ZeroGrid} \cup {[ZeroGrid EXCEPT ![1][1] = v] : v \in 1..Len(ZeroGrid)}
  \cup {<< <<0>> >>, << <<1>> >>}

InitSudoku ==
  /\ input = <<>>
  /\ num_vars = 0
  /\ solver = "none"
  /\ stack = <<>>
  /\ ret = NoRet
  /\ counters = ZeroCounters
  /\ results = [s \in Solvers |-> NoResult]
  /\ grid \in Puzzles
  /\ bm = BmIdle /\ prop = PropIdle /\ dm = DmIdle /\ call = CallIdle

Encode ==
  /\ num_vars = 0
  /\ input' = to_cnf(grid).clauses
  /\ num_vars' = to_cnf(grid).num_vars
  /\ UNCHANGED <<solver, stack, ret, counters, results, aside>>

\* solve_cnf of solver.py on the encoder's output
Sudoku_Solve ==
  /\ num_vars # 0
  /\ SolveCnf
  /\ solver' = "dlcs"

NextSudoku ==
  \/ Encode
  \/ Sudoku_Solve
  \/ Dpll_Call
  \/ Dpll_Try
  \/ Dpll_Fail
  \/ Dpll_Return
  \/ Solve_Return

SpecSudoku == InitSudoku /\ [][NextSudoku]_vars

\* ------------------------------------------------- main.py: parse_dimacs
Headers ==
  { <<"p", "cnf", "2", "1">>, <<"p", "cnf", "2">>, <<"c", "cnf", "2", "1">>,
    <<"p", "dnf", "2", "1">> }

Numerals == {"0", "1", "-1", "2"}

\* int(x) on the numerals of the model
IntOf(x) ==
  CASE x = "0" -> 0 [] x = "1" -> 1 [] x = "-1" -> -1 [] x = "2" -> 2

\* a clause line after strip().split(" ")
ClauseLines == UNION {[1..n -> Numerals] : n \in 1..LineTokens}

InitDimacs ==
  /\ SearchIdle
  /\ grid = <<>> /\ bm = BmIdle /\ prop = PropIdle /\ call = CallIdle
  /\ \E h \in Headers :
       \E ls \in UNION {[1..n -> ClauseLines] : n \in 0..FileLines} :
         dm = [pc |-> "header", header |-> h, lines |-> ls, at |-> 1,
               complained |-> FALSE, clauses |-> <<>>, num_vars |-> 0]

DimacsFrame ==
  UNCHANGED <<input, num_vars, solver, stack, ret, counters, results,
              grid, bm, prop, call>>

\* the header line: a wrong header prints a message and exits
Parse_Header ==
  /\ dm.pc = "header"
  /\ LET components == dm.header
     IN  IF Len(components) # 4 \/ components[1] # "p" \/ components[2] # "cnf"
         THEN dm' = [dm EXCEPT !.pc = "exit"]
         ELSE dm' = [dm EXCEPT !.pc = "lines", !.num_vars = IntOf(components[3])]
  /\ DimacsFrame

\* one iteration of "while line": a line that does not end with 0 prints a
\* message, and numbers[:-1] is appended all the same
ParseLine(d) ==
  LET numbers == [k \in DOMAIN d.lines[d.at] |-> IntOf(d.lines[d.at][k])]
  IN  [d EXCEPT
         !.complained = @ \/ numbers[Len(numbers)] # 0,
         !.clauses = Append(@, SubSeq(numbers, 1, Len(numbers) - 1)),
         !.at = @ + 1]

Parse_Line ==
  /\ dm.pc = "lines" /\ dm.at <= Len(dm.lines)
  /\ dm' = ParseLine(dm)
  /\ DimacsFrame

\* end of file: return clauses, num_vars
Parse_Return ==
  /\ dm.pc = "lines" /\ dm.at > Len(dm.lines)
  /\ dm' = [dm EXCEPT !.pc = "returned"]
  /\ DimacsFrame

NextDimacs ==
  \/ Parse_Header
  \/ Parse_Line
  \/ Parse_Return

SpecDimacs == InitDimacs /\ [][NextDimacs]_vars

\* ------------------------------------------------ the heuristics alone
\* partial assignments of the variables of the model, as true literals
PartialAssignments == {a \in SUBSET Lits : \A l \in a : -l \notin a}

\* clause lists of the helpers that read sets
ClauseSetLists ==
  {clauses_to_sets(cs) : cs \in UNION {[1..n -> ClauseTuples] : n \in 0..PropClauses}}

NoVar == [var |-> 0, pref |-> TRUE]

InitSelect ==
  /\ SearchIdle
  /\ grid = <<>> /\ bm = BmIdle /\ prop = PropIdle /\ dm = DmIdle
  /\ \E cs \in ClauseSetLists : \E a \in PartialAssignments : \E n \in 0..NumVars :
       call = [pc |-> "dlcs", clauses |-> cs, asg |-> a, nv |-> n,
               dlcs |-> NoVar, mom |-> NoVar, jw |-> NoVar]

CallFrameKept ==
  UNCHANGED <<input, num_vars, solver, stack, ret, counters, results,
              grid, bm, prop, dm>>

\* _choose_branch_var of solver.py
Select_Dlcs ==
  /\ call.pc = "dlcs"
  /\ call' = [call EXCEPT
                !.dlcs = choose_branch_var(call.clauses, call.asg, call.nv),
                !.pc = "mom"]
  /\ CallFrameKept

\* split of solver_mom.py
Select_Mom ==
  /\ call.pc = "mom"
  /\ \E r \in mom_split(call.clauses, call.asg) :
       call' = [call EXCEPT !.mom = r, !.pc = "jw"]
  /\ CallFrameKept

\* split of solver_jw_watched.py
Select_Jw ==
  /\ call.pc = "jw"
  /\ call' = [call EXCEPT
                !.jw = jw_split(call.clauses, call.asg, call.nv),
                !.pc = "selected"]
  /\ CallFrameKept

NextSelect ==
  \/ Select_Dlcs
  \/ Select_Mom
  \/ Select_Jw

SpecSelect == InitSelect /\ [][NextSelect]_vars

\* ------------------------------------- pure-literal elimination alone
InitPure ==
  /\ SearchIdle
  /\ grid = <<>> /\ bm = BmIdle /\ prop = PropIdle /\ dm = DmIdle
  /\ \E cs \in ClauseSetLists : \E a \in PartialAssignments :
       call = [pc |-> "pure", clauses |-> cs, asg |-> a,
               out |-> [clauses |-> <<>>, asg |-> {}]]

\* _pure_literal_elim of solver.py (= pure_literal_rule of the other two)
Pure_Run ==
  /\ call.pc = "pure"
  /\ call' = [call EXCEPT !.out = pure_literal_elim(call.clauses, call.asg),
                          !.pc = "purged"]
  /\ CallFrameKept

NextPure == Pure_Run

SpecPure == InitPure /\ [][NextPure]_vars

\* ------------------------------------------------------------ properties
\* exhaustive check: some total assignment of 1..nv satisfies every clause
Satisfiable(clauses, nv) ==
  \E T \in SUBSET (1..nv) :
    \A i \in DOMAIN clauses :
      \E j \in DOMAIN clauses[i] :
        \/ clauses[i][j] > 0 /\ clauses[i][j] \in T
        \/ clauses[i][j] < 0 /\ -clauses[i][j] \notin T

\* the model makes a literal of every clause true
ModelSatisfies(model, clauses) ==
  \A i \in DOMAIN clauses :
    \E j \in DOMAIN clauses[i] : clauses[i][j] \in Range(model)

Finished(s) == results[s].status # "none"

\* C1 (soundness): a model returned with SAT by solve_cnf (DLCS) or by
\* solve_cnf_mom makes at least one literal of every input clause true.
C1_Soundness ==
  \A s \in {"dlcs", "mom"} :
    results[s].status = "SAT" => ModelSatisfies(results[s].model, input)

\* SAT was returned for a formula of two or more clauses in which some
\* variable does not occur, so the search left it unassigned and the model
\* builder set it to false
C1_Witness ==
  /\ results["dlcs"].status = "SAT"
  /\ results["mom"].status = "SAT"
  /\ Len(input) >= 2
  /\ \E v \in 1..num_vars :
       /\ \A i \in DOMAIN input : v \notin Range(input[i]) /\ -v \notin Range(input[i])
       /\ results["dlcs"].model[v] = -v

\* C2 (completeness): solve_cnf (DLCS) and solve_cnf_mom return UNSAT exactly
\* when no total assignment of 1..num_vars satisfies the input, and SAT
\* exactly when one does.
C2_Completeness ==
  \A s \in {"dlcs", "mom"} :
    Finished(s) =>
      /\ results[s].status = "UNSAT" <=> ~Satisfiable(input, num_vars)
      /\ results[s].status = "SAT" <=> Satisfiable(input, num_vars)

\* solve_cnf_mom answered SAT after its preferred-polarity child had failed
\* (the complement branch kept the satisfying assignment)
C2_Witness ==
  /\ results["mom"].status = "SAT"
  /\ results["dlcs"].status = "SAT"
  /\ ~Finished("jw") /\ solver = "none"
  /\ counters.backtracks >= 1

\* C3 (two outcomes, no raised error): every entry point ends in SAT with a
\* model or UNSAT without one, and every clause list the branch step hands to
\* the watched-literal propagation is in the indexed form it reads.
C3_NoRaisedError ==
  /\ \A s \in Solvers : results[s].status \in {"none", "SAT", "UNSAT"}
  /\ \A k \in DOMAIN stack :
       (solver = "jw" /\ ~stack[k].loop /\ Len(stack[k].clauses) > 0)
         => stack[k].indexed

\* C4 (heuristic independence): the three entry points return the same
\* status for the same formula.
C4_SameStatus ==
  (\A s \in Solvers : Finished(s)) =>
    /\ results["dlcs"].status = results["mom"].status
    /\ results["mom"].status = results["jw"].status

\* C6 as stated: at termination of solve_cnf_mom, backtracks <= splits.
C6_BacktracksAtMostSplits ==
  (Finished("mom") /\ ~Finished("jw") /\ solver = "none")
    => counters.backtracks <= counters.splits

\* C6 (amended): at termination of solve_cnf_mom, backtracks <= 2 * splits;
\* each split has two children and each failed child counts one backtrack.
C6_BacktracksAtMostTwiceSplits ==
  (Finished("mom") /\ ~Finished("jw") /\ solver = "none")
    => counters.backtracks <= 2 * counters.splits

\* solve_cnf_mom has ended after a split both of whose children failed
C6_Witness ==
  /\ Finished("mom") /\ ~Finished("jw") /\ solver = "none"
  /\ counters.splits >= 1
  /\ counters.backtracks = 2 * counters.splits

\* C7: at termination of solve_cnf_mom, calls >= splits + 1.
C7_CallsExceedSplits ==
  (Finished("mom") /\ ~Finished("jw") /\ solver = "none")
    => counters.calls >= counters.splits + 1

\* solve_cnf_mom has ended after at least one split
C7_Witness ==
  /\ Finished("mom") /\ ~Finished("jw") /\ solver = "none"
  /\ counters.splits >= 1
  /\ counters.calls = counters.splits + 1

\* C5: the model builder returns exactly num_vars entries, the i-th being +i
\* when variable i is bound to true and -i when it is bound to false or not
\* bound; variables outside 1..num_vars do not appear.
C5_ModelShape ==
  bm.done =>
    /\ Len(bm.model) = bm.nv
    /\ \A i \in 1..bm.nv :
         /\ i \in bm.asg => bm.model[i] = i
         /\ i \notin bm.asg => bm.model[i] = -i
    /\ \A k \in DOMAIN bm.model : Abs(bm.model[k]) \in 1..bm.nv

\* a model was built from an assignment with a true, a false and an unbound
\* variable inside 1..num_vars and a binding outside
C5_Witness ==
  /\ bm.done
  /\ \E t \in 1..bm.nv : \E f \in 1..bm.nv : \E u \in 1..bm.nv :
       /\ t \in bm.asg /\ -f \in bm.asg /\ ~IsBound(u, bm.asg)
       /\ bm.model[t] = t /\ bm.model[f] = -f /\ bm.model[u] = -u
  /\ \E l \in bm.asg : Abs(l) > bm.nv

\* C8 (watched-literal equivalence): on the same clauses and assignment the
\* naive and the watched unit propagation both return, with the same
\* conflict flag and the same assignment.
C8_SameResult ==
  (prop.pc = "watched" /\ prop.w.pc = "done") =>
    /\ prop.naive.out # "diverge"
    /\ (prop.naive.out = "conflict") <=> (prop.w.out = "conflict")
    /\ prop.naive.asg = prop.w.asg

\* the values the model places in cell (r, c)
DecodedCell(model, r, c, N) ==
  {v \in 1..N : map_to_var(r, c, v, N) \in Range(model)}

\* every cell holds one value and the row, column, box and adjacency rules hold
DecodedValid(model, N) ==
  LET cell(r, c) == DecodedCell(model, r, c, N)
      B == ISqrt(N)
      R == 0..(N - 1)
  IN  /\ \A r \in R : \A c \in R : Cardinality(cell(r, c)) = 1
      /\ \A r \in R : \A c1 \in R : \A c2 \in R :
           c1 # c2 => cell(r, c1) # cell(r, c2)
      /\ \A c \in R : \A r1 \in R : \A r2 \in R :
           r1 # r2 => cell(r1, c) # cell(r2, c)
      /\ \A r1 \in R : \A c1 \in R : \A r2 \in R : \A c2 \in R :
           (<<r1, c1>> # <<r2, c2>> /\ r1 \div B = r2 \div B /\ c1 \div B = c2 \div B)
             => cell(r1, c1) # cell(r2, c2)
      /\ \A r1 \in R : \A c1 \in R : \A r2 \in R : \A c2 \in R :
           (Abs(r1 - r2) + Abs(c1 - c2) = 1)
             => \A a \in cell(r1, c1) : \A b \in cell(r2, c2) : Abs(a - b) # 1

\* C9 as stated: the empty 4x4 puzzle is reported SAT and the decoded grid
\* obeys the row, column, box and adjacency rules.
C9_EmptyPuzzleSat ==
  (grid = ZeroGrid /\ Finished("dlcs")) =>
    /\ results["dlcs"].status = "SAT"
    /\ DecodedValid(results["dlcs"].model, Len(grid))

\* C9 (amended): the encoder's clauses for the empty 4x4 puzzle (num_vars =
\* 64) are reported UNSAT by solve_cnf, with no model: no 4x4 grid obeys the
\* Sudoku rules and the non-consecutive rule together.
C9_EmptyPuzzleUnsat ==
  (grid = ZeroGrid /\ Finished("dlcs")) =>
    /\ num_vars = 64
    /\ results["dlcs"].status = "UNSAT"
    /\ results["dlcs"].model = <<>>

\* solve_cnf has returned on the encoding of the empty 4x4 puzzle
C9_Witness ==
  /\ grid = ZeroGrid
  /\ Finished("dlcs")
  /\ input = to_cnf(ZeroGrid).clauses
  /\ Len(input) > 0

\* C10: a file with a clause line that does not end with 0 is rejected: the
\* reader returns no (clauses, num_vars) pair for it.
C10_RejectsUnterminated ==
  dm.pc = "returned" =>
    \A k \in DOMAIN dm.lines : dm.lines[k][Len(dm.lines[k])] = "0"

\* the number of branch decisions on the active recursion path
Depth == Cardinality({k \in DOMAIN stack : stack[k].loop})

\* the steps of a started search
Search == Dpll_Call \/ Dpll_Try \/ Dpll_Fail \/ Dpll_Return \/ Solve_Return

\* the variables of 1..num_vars an assignment leaves unbound
Unbound(asg) == Cardinality({v \in 1..num_vars : ~IsBound(v, asg)})

\* a bound on the steps of one call of the search with u unbound variables:
\* its own step, two children with the step before and after each, the
\* final failure
RECURSIVE CallCost(_)
CallCost(u) == IF u <= 0 THEN 1 ELSE 2 * CallCost(u - 1) + 6

\* the steps an activation still has to make, its children included
FrameCost(k) ==
  LET f == stack[k]
      try == 2 + CallCost(Unbound(f.asg) - 1)
  IN  IF ~f.loop THEN CallCost(Unbound(f.asg))
      ELSE IF k = Len(stack) /\ ~ret.set
           THEN (3 - f.i) * try + 1
           ELSE (2 - f.i) * try + 2

RECURSIVE StackCost(_)
StackCost(k) == IF k = 0 THEN 0 ELSE FrameCost(k) + StackCost(k - 1)

\* the steps a started search still has to make, at most
Measure == (IF solver = "none" THEN 0 ELSE 1) + StackCost(Len(stack))

\* C11 (termination, recursion depth): at every moment the number of nested
\* branch decisions on the active path is at most num_vars; every step of a
\* started search lowers a natural-number bound on the steps left (each
\* child has one unbound variable fewer than its parent), so the search
\* terminates; solve_cnf (DLCS) and solve_cnf_mom end with SAT or UNSAT.
C11_TerminatesWithinDepth ==
  /\ [](Depth <= num_vars /\ Measure \in Nat)
  /\ [](\A s \in {"dlcs", "mom"} : results[s].status \in {"none", "SAT", "UNSAT"})
  /\ [][Search => Measure' < Measure]_vars

\* two branch decisions are nested on the active path of solve_cnf: the
\* second one bound a variable its parent had left unassigned
C11_Witness ==
  /\ solver = "dlcs"
  /\ Depth = 2
  /\ \E j \in DOMAIN stack : \E k \in DOMAIN stack :
       /\ j < k /\ stack[j].loop /\ stack[k].loop
       /\ ~IsBound(stack[k].var, stack[j].asg)
       /\ stack[k].var # stack[j].var

\* a heuristic result: no variable only when all of 1..nv are bound, an
\* unbound variable otherwise
SelectsUnbound(r, asg, nv) ==
  /\ r.var = 0 => \A v \in 1..nv : IsBound(v, asg)
  /\ r.var # 0 => ~IsBound(r.var, asg)

\* C12: on every (clauses, assignment, num_vars) each heuristic (DLCS
\* _choose_branch_var, MOM split, JW split) answers 'no variable' only if
\* every variable of 1..num_vars is bound, and otherwise returns an
\* unassigned variable.
C12_NoneOnlyWhenAllBound ==
  call.pc = "selected" =>
    /\ SelectsUnbound(call.dlcs, call.asg, call.nv)
    /\ SelectsUnbound(call.mom, call.asg, call.nv)
    /\ SelectsUnbound(call.jw, call.asg, call.nv)

\* the watch table of the running watched-literal propagation has been built
Watched == prop.pc = "watched" /\ prop.w.pc # "build" /\ Len(prop.w.watched_pos) > 0

\* the two literals clause ci watches
WatchedLits(w, ci) ==
  {w.clauses[ci][w.watched_pos[ci][1]], w.clauses[ci][w.watched_pos[ci][2]]}

\* both watched literals of clause ci are false under the assignment
BothWatchedFalse(w, ci) == \A l \in WatchedLits(w, ci) : -l \in w.asg

\* C13 as stated: after watch construction, after the unit scan and after
\* each queue step, a clause whose two watched literals are both false has
\* been reported as the conflict.
C13_WatchInvariant ==
  Watched =>
    \A ci \in DOMAIN prop.w.watched_pos :
      BothWatchedFalse(prop.w, ci) =>
        (prop.w.out = "conflict" /\ prop.w.conflict_ci = ci)

\* C13 (amended): while the propagation has not returned a conflict, a
\* clause whose two watched literals are both false has the literal that
\* falsified one of them still waiting in the queue; once the queue is empty
\* no clause has both watched literals false.
C13_WatchInvariantPending ==
  (Watched /\ prop.w.out # "conflict") =>
    \A ci \in DOMAIN prop.w.watched_pos :
      BothWatchedFalse(prop.w, ci) =>
        \E l \in WatchedLits(prop.w, ci) : -l \in Range(prop.w.queue)

\* the propagation is running with a clause whose two watched literals are
\* both false while the literal that falsified one of them waits in the queue
C13_Witness ==
  /\ Watched /\ prop.w.pc = "loop" /\ prop.w.out = "run"
  /\ \E ci \in DOMAIN prop.w.watched_pos :
       /\ BothWatchedFalse(prop.w, ci)
       /\ Cardinality(WatchedLits(prop.w, ci)) = 2
       /\ \E l \in WatchedLits(prop.w, ci) : -l \in Range(prop.w.queue)

\* the watched-literal propagation has returned without conflict
WatchedReturned == prop.pc = "watched" /\ prop.w.pc = "done" /\ prop.w.out = "ok"

\* C14 (global fixpoint): when the watched-literal propagation returns
\* without conflict, the returned clauses hold no empty clause, no clause of
\* length 1 and no literal of a variable bound in the returned assignment,
\* they are the input clauses that have no true literal, with their false
\* literals removed, and every dropped clause has a true literal.
C14_WatchedFixpoint ==
  WatchedReturned =>
    LET w == prop.w
        kept == {ci \in DOMAIN w.clauses : Range(w.clauses[ci]) \cap w.asg = {}}
    IN  /\ \A k \in DOMAIN w.simplified :
             /\ Cardinality(w.simplified[k]) >= 2
             /\ \A l \in w.simplified[k] : ~IsBound(Abs(l), w.asg)
        /\ Len(w.simplified) = Cardinality(kept)
        /\ \A ci \in kept :
             \E k \in DOMAIN w.simplified :
               w.simplified[k] = {l \in Range(w.clauses[ci]) : -l \notin w.asg}
        /\ prop.asg \subseteq w.asg

\* the propagation returned without conflict after binding a variable from
\* a unit clause, dropping a satisfied clause and shortening a kept one
C14_Witness ==
  /\ WatchedReturned
  /\ prop.w.asg # prop.asg
  /\ Len(prop.w.simplified) = 1
  /\ Len(prop.w.clauses) = 2
  /\ \E ci \in DOMAIN prop.w.clauses :
       /\ Range(prop.w.clauses[ci]) \cap prop.w.asg = {}
       /\ Cardinality(prop.w.simplified[1]) < Len(prop.w.clauses[ci])

\* C15 (naive unit propagation terminates): on every clause list and every
\* partial assignment _unit_propagate / unit_clause_rule returns, with a
\* conflict or with clauses among which none has length 1.
C15_NaiveTerminates ==
  prop.pc = "watched" =>
    \/ prop.naive.out = "conflict"
    \/ /\ prop.naive.out = "ok"
       /\ \A k \in DOMAIN prop.naive.clauses :
            Cardinality(prop.naive.clauses[k]) # 1

\* the indices of the input clauses that a pure-literal run removed: those
\* holding a literal of a binding the run added
PureRemoved ==
  {i \in DOMAIN call.clauses : call.clauses[i] \cap (call.out.asg \ call.asg) # {}}

\* C16 (pure-literal elimination removes whole clauses only): the returned
\* clauses are the input clauses, unchanged and in order, without those
\* that hold a literal made true by an added binding; bindings are only
\* added, never to both values; no empty clause is created.
C16_PureRemovesWholeClauses ==
  call.pc = "purged" =>
    /\ call.out.clauses =
         SelectSeq(call.clauses, LAMBDA c : c \cap (call.out.asg \ call.asg) = {})
    /\ call.asg \subseteq call.out.asg
    /\ \A l \in call.out.asg : -l \notin call.out.asg
    /\ contains_empty_clause(call.out.clauses) => contains_empty_clause(call.clauses)

\* a run removed one clause of two and returned the other one whole, and
\* that clause holds a bound variable's false literal
C16_Witness ==
  /\ call.pc = "purged"
  /\ Len(call.clauses) = 2
  /\ Cardinality(PureRemoved) = 1
  /\ Len(call.out.clauses) = 1
  /\ \E l \in call.out.clauses[1] : -l \in call.asg

\* no variable is bound to both values
Consistent(asg) == \A l \in asg : -l \notin asg

\* C17 (assignments grow along a search path): every activation's
\* assignment extends the assignments of the activations below it on the
\* path; the step that runs unit propagation and pure-literal elimination
\* in an activation, and the step that builds a child, only add bindings;
\* an assignment returned with success extends those of all its callers;
\* no assignment binds a variable to two values.
C17_AssignmentMonotone ==
  /\ [](\A k \in DOMAIN stack :
          /\ Consistent(stack[k].asg)
          /\ \A j \in 1..(k - 1) : stack[j].asg \subseteq stack[k].asg)
  /\ [](ret.set /\ ret.sat =>
          /\ Consistent(ret.asg)
          /\ \A k \in DOMAIN stack : stack[k].asg \subseteq ret.asg)
  /\ [][\A k \in DOMAIN stack \cap DOMAIN stack' :
          stack[k].asg \subseteq stack'[k].asg]_vars

\* the complement child of the root's branch has returned success with the
\* branch binding and at least one binding added by propagation
C17_Witness ==
  /\ solver = "dlcs" /\ ret.set /\ ret.sat
  /\ Len(stack) = 1 /\ Top.loop /\ Top.i = 2
  /\ Top.asg \subseteq ret.asg
  /\ Cardinality(ret.asg) >= Cardinality(Top.asg) + 2

\* the literal the branch loop of activation f is trying
TryLit(f) == IF TryVals(f.pref)[f.i] THEN f.var ELSE -f.var

\* C18 (copy-on-branch): a child just started, the complement child after a
\* failed preferred child included, has exactly its parent's simplified
\* clauses and assignment plus the one branch binding; the clauses,
\* assignment and branch variable of an activation in its branch loop are
\* never changed by what its children do; the caller's input clauses are
\* never changed by a running solve.
C18_CopyOnBranch ==
  /\ [](\A k \in 1..(Len(stack) - 1) :
          (stack[k].loop /\ ~stack[k + 1].loop) =>
            /\ ~IsBound(stack[k].var, stack[k].asg)
            /\ stack[k + 1].asg = stack[k].asg \cup {TryLit(stack[k])}
            /\ stack[k + 1].clauses =
                 simplify_after_assignment(stack[k].clauses, TryLit(stack[k])))
  /\ [][\A k \in DOMAIN stack \cap DOMAIN stack' :
          stack[k].loop =>
            /\ stack'[k].clauses = stack[k].clauses
            /\ stack'[k].asg = stack[k].asg
            /\ stack'[k].var = stack[k].var
            /\ stack'[k].pref = stack[k].pref]_vars
  /\ [][solver # "none" => input' = input]_vars

\* solve_cnf_mom has started the complement child of the root's branch after
\* the preferred child returned failure from its own call
C18_Witness ==
  /\ solver = "mom"
  /\ Len(stack) = 2 /\ stack[1].loop /\ ~stack[2].loop
  /\ stack[1].i = 2
  /\ counters.backtracks = 1
  /\ stack[2].asg = stack[1].asg \cup {TryLit(stack[1])}
  /\ stack[1].new_assignment = stack[2].asg

\* the literal bound for the child that activation f is exploring: the
\* preferred polarity in the first iteration, its complement in the second
ChildLit(f) == IF (f.i = 1) = f.pref THEN f.var ELSE -f.var

\* C19 (branch ordering, first-success short-circuit): the child being
\* explored at a branch is the preferred polarity's in the first iteration
\* and the complement's in the second; the loop moves on to the next
\* polarity only when the child of the current one has returned failure;
\* once a child has returned success no call is started or executed any
\* more, the success is passed up unchanged and the result is built from
\* that child's assignment; a call in its branch loop fails only after both
\* polarities have failed.
C19_BranchOrder ==
  /\ [](\A k \in 1..(Len(stack) - 1) :
          /\ stack[k].loop
          /\ stack[k].i \in {1, 2}
          /\ ChildLit(stack[k]) \in stack[k + 1].asg)
  /\ [][\A k \in DOMAIN stack \cap DOMAIN stack' :
          (stack[k].loop /\ stack'[k].i # stack[k].i) =>
            /\ stack'[k].i = stack[k].i + 1
            /\ k = Len(stack) /\ ret.set /\ ~ret.sat]_vars
  /\ [][(ret.set /\ ret.sat) =>
          /\ counters' = counters
          /\ IF Len(stack) > 0
             THEN stack' = Pop /\ ret' = ret
             ELSE results'[solver] =
                    [status |-> "SAT", model |-> build_model(ret.asg, num_vars)]]_vars
  /\ [][(Len(stack) > 0 /\ Len(stack') < Len(stack) /\ Top.loop
           /\ ret'.set /\ ~ret'.sat) => Top.i = 3]_vars

\* the complement child of a branch has returned success after the
\* preferred child had failed, and is being passed up
C19_Witness ==
  /\ solver = "mom" /\ ret.set /\ ret.sat
  /\ Len(stack) = 1 /\ Top.loop /\ Top.i = 2
  /\ counters.backtracks >= 1
  /\ ChildLit(Top) \in ret.asg

\* the number of the given clauses that hold literal l
Occurrences(l) == Cardinality({i \in DOMAIN call.clauses : l \in call.clauses[i]})

\* positive_count + negative_count of variable v
Score(v) == Occurrences(v) + Occurrences(-v)

\* the variables of 1..num_vars the given assignment leaves unassigned
Unassigned == {v \in 1..call.nv : ~IsBound(v, call.asg)}

\* C20 (DLCS selection): when some variable of 1..num_vars is unassigned,
\* _choose_branch_var returns the unassigned variable with the largest
\* positive_count + negative_count, the lowest id among those tied, and
\* prefers true exactly when positive_count >= negative_count.
C20_DlcsSelection ==
  (call.pc \in {"mom", "jw", "selected"} /\ Unassigned # {}) =>
    /\ call.dlcs.var \in Unassigned
    /\ \A v \in Unassigned :
         /\ Score(v) <= Score(call.dlcs.var)
         /\ Score(v) = Score(call.dlcs.var) => call.dlcs.var <= v
    /\ call.dlcs.pref = (Occurrences(call.dlcs.var) >= Occurrences(-call.dlcs.var))

\* _choose_branch_var has returned the lower of two tied unassigned
\* variables, preferring false, while a bound variable occurs more often
C20_Witness ==
  /\ call.pc = "mom"
  /\ ~call.dlcs.pref
  /\ \E v \in Unassigned : v > call.dlcs.var /\ Score(v) = Score(call.dlcs.var)
  /\ \E b \in 1..call.nv :
       IsBound(b, call.asg) /\ Score(b) > Score(call.dlcs.var)

\* C21 (reverse index of the watch table): in every state of the
\* watched-literal propagation each clause has two watched positions inside
\* the clause, equal only when the clause has length 1, and clause ci is in
\* the watcher set of literal l exactly when l is the literal at one of its
\* watched positions.
C21_WatchersConsistent ==
  Watched =>
    /\ Len(prop.w.watched_pos) = Len(prop.w.clauses)
    /\ \A l \in DOMAIN prop.w.watchers :
         prop.w.watchers[l] \subseteq DOMAIN prop.w.clauses
    /\ \A ci \in DOMAIN prop.w.clauses :
         /\ Len(prop.w.watched_pos[ci]) = 2
         /\ \A p \in 1..2 : prop.w.watched_pos[ci][p] \in DOMAIN prop.w.clauses[ci]
         /\ (prop.w.watched_pos[ci][1] = prop.w.watched_pos[ci][2])
              <=> (Len(prop.w.clauses[ci]) = 1)
         /\ \A l \in Lits :
              (ci \in Watching(prop.w, l)) <=> (l \in WatchedLits(prop.w, ci))

\* a queue step has moved a watch of a clause of three literals to its
\* third literal, and the old literal's watcher set has lost the clause
C21_Witness ==
  /\ Watched
  /\ \E ci \in DOMAIN prop.w.clauses :
       /\ Len(prop.w.clauses[ci]) = 3
       /\ 3 \in {prop.w.watched_pos[ci][1], prop.w.watched_pos[ci][2]}
       /\ ci \in Watching(prop.w, prop.w.clauses[ci][3])
       /\ \E p \in 1..2 : ci \notin Watching(prop.w, prop.w.clauses[ci][p])

\* the naive search (solve_cnf of solver.py, solve_cnf_mom) is running
NaiveSearch == solver \in {"dlcs", "mom"}

\* C22 (clauses at the branching step): in the naive search every clause
\* of an activation that has reached its branch loop has at least two
\* literals and mentions no assigned variable, so neither polarity of the
\* chosen variable simplifies a clause to the empty clause, and every
\* iteration of the branch loop makes its recursive call: none is skipped.
C22_BranchClausesWide ==
  /\ [](NaiveSearch =>
          \A k \in DOMAIN stack :
            stack[k].loop =>
              /\ \A c \in DOMAIN stack[k].clauses :
                   /\ Cardinality(stack[k].clauses[c]) >= 2
                   /\ \A l \in stack[k].clauses[c] : ~IsBound(Abs(l), stack[k].asg)
              /\ \A lit \in {stack[k].var, -stack[k].var} :
                   \A c \in DOMAIN stack[k].clauses :
                     stack[k].clauses[c] \ {-lit} # {})
  /\ [][(NaiveSearch /\ Len(stack) > 0 /\ Top.loop /\ ~ret.set /\ Top.i <= 2) =>
          /\ Len(stack') = Len(stack) + 1
          /\ stack'[Len(stack)].i = Top.i]_vars

\* solve_cnf_mom is about to start the second iteration of a branch loop,
\* with a clause of exactly two literals that holds the complement of the
\* literal being tried
C22_Witness ==
  /\ solver = "mom"
  /\ Len(stack) > 0 /\ Top.loop /\ ~ret.set /\ Top.i = 2
  /\ \E c \in DOMAIN Top.clauses :
       /\ Cardinality(Top.clauses[c]) = 2
       /\ -TryLit(Top) \in Top.clauses[c]

\* the variables that occur in a clause list
VarsOf(clauses) == {Abs(l) : l \in LitsOf(clauses)}

\* what the heuristic answers in the call on top of the stack, when that
\* call gets as far as asking it
Answers ==
  LET up == Propagate(solver, Top)
      pl == pure_literal_elim(up.clauses, up.asg)
  IN  IF up.out = "ok" /\ Len(pl.clauses) > 0 /\ ~contains_empty_clause(pl.clauses)
      THEN {[ch |-> ch, clauses |-> pl.clauses, asg |-> pl.asg] :
              ch \in Splits(solver, pl.clauses, pl.asg, num_vars)}
      ELSE {}

\* C23 (the heuristic always finds a variable): in every call of a running
\* search on well-formed input, when clauses remain after unit propagation
\* and pure-literal elimination and none is empty, the heuristic returns a
\* variable of 1..num_vars that is unassigned and occurs in a surviving
\* clause, never 'no variable'; every activation in its branch loop
\* branches on such a variable.
C23_HeuristicFindsVariable ==
  /\ (solver # "none" /\ Len(stack) > 0 /\ ~Top.loop /\ ~ret.set) =>
       \A a \in Answers :
         /\ a.ch.var \in 1..num_vars
         /\ ~IsBound(a.ch.var, a.asg)
         /\ a.ch.var \in VarsOf(a.clauses)
  /\ \A k \in DOMAIN stack :
       stack[k].loop =>
         /\ stack[k].var \in 1..num_vars
         /\ ~IsBound(stack[k].var, stack[k].asg)
         /\ stack[k].var \in VarsOf(stack[k].clauses)

\* a recursive call of solve_cnf_mom is about to ask the heuristic, with
\* one variable bound by its caller's branch and two clauses left
C23_Witness ==
  /\ solver = "mom"
  /\ Len(stack) = 2 /\ ~Top.loop /\ ~ret.set
  /\ \E a \in Answers :
       /\ a.ch.var # 0
       /\ Len(a.clauses) >= 2
       /\ a.asg # {}

====
